---- MODULE Spec2Model ----
(***************************************************************************)
(* Model of the homepage feature section of prompt-insights                *)
(* (src/components/HomepageFeatures/index.tsx).                            *)
(*                                                                         *)
(* Strings are sequences of UTF-16 code units, as in the language of the   *)
(* source.  A React node is a record with a "tag"; a text node is          *)
(* [tag |-> "#text", text |-> s].  A className is the sequence of the      *)
(* class names of the attribute's value.                                   *)
(***************************************************************************)
EXTENDS Naturals, Sequences, FiniteSets

VARIABLES FeatureList, pc, idx, mapped, visits, section, dom, outcome,
          calls, firstSection, firstDom

vars == <<FeatureList, pc, idx, mapped, visits, section, dom, outcome,
          calls, firstSection, firstDom>>

(* Bounds of the exploration. *)
MaxLen == 3
MaxInvocations == 3

----------------------------------------------------------------------------
(* Nodes *)

Null == [tag |-> "null"]

Text(s) == [tag |-> "#text", text |-> s]

Strong(s) == [tag |-> "strong", children |-> <<Text(s)>>]

Fragment(children) == [tag |-> "Fragment", children |-> children]

----------------------------------------------------------------------------
(* const FeatureList: the three entries of the source.  The whitespace of  *)
(* the JSX text is the one JSX keeps: lines are trimmed and joined by one  *)
(* space.                                                                  *)

Title1 == <<49892, 51204, 32, 54532, 47212, 54532, 53944, 32, 48516, 49437>>

Title2 == <<76, 76, 77, 32, 50640, 51060, 51204, 53944, 32, 52572, 51201,
            54868>>

Title3 == <<48148, 47196, 32, 51201, 50857, 32, 44032, 45733, 54620, 32,
            51064, 49324, 51060, 53944>>

Description1 ==
  Fragment(<<
    Text(<<67, 108, 117, 101, 108, 121, 44, 32, 67, 117, 114, 115, 111, 114,
           44, 32, 80, 101, 114, 112, 108, 101, 120, 105, 116, 121, 32,
           44057, 51008, 32>>),
    Strong(<<49892, 51228, 32, 49436, 48708, 49828>>),
    Text(<<50640, 49436, 32, 49324, 50857, 46104, 45716, 32, 54532, 47212,
           54532, 53944, 47484, 32, 48516, 49437, 54616, 50668, 32, 44160,
           51613, 46108, 32, 54056, 53556, 44284, 32, 51204, 47029, 51012,
           32, 44277, 50976, 54633, 45768, 45796, 46>>) >>)

Description2 ==
  Fragment(<<
    Text(<<50669, 54624, 32, 51221, 51032, 44, 32, 52968, 53581, 49828,
           53944, 32, 44288, 47532, 44, 32, 46020, 44396, 32, 54876, 50857,
           32, 46321, 32>>),
    Strong(<<50640, 51060, 51204, 53944, 32, 44060, 48156, 51032, 32, 54645,
             49900, 32, 50836, 49548>>),
    Text(<<46308, 51012, 32, 52404, 44228, 51201, 51004, 47196, 32, 48516,
           49437, 54616, 44256, 32, 48288, 49828, 53944, 32, 54532, 47001,
           54000, 49828, 47484, 32, 51228, 49884, 54633, 45768, 45796,
           46>>) >>)

Description3 ==
  Fragment(<<
    Text(<<51060, 47200, 51060, 32, 50500, 45772, 32>>),
    Strong(<<49892, 47924, 50640, 49436, 32, 48148, 47196, 32, 54876,
             50857>>),
    Text(<<54624, 32, 49688, 32, 51080, 45716, 32, 54532, 47212, 54532,
           53944, 32, 54056, 53556, 44284, 32, 44396, 54788, 32, 44032,
           51060, 46300, 47484, 32, 51228, 44277, 54633, 45768, 45796,
           46>>) >>)

SourceFeatureList ==
  << [title |-> Title1, Svg |-> "undraw_docusaurus_mountain.svg",
      description |-> Description1],
     [title |-> Title2, Svg |-> "undraw_docusaurus_tree.svg",
      description |-> Description2],
     [title |-> Title3, Svg |-> "undraw_docusaurus_react.svg",
      description |-> Description3] >>

(* type FeatureItem, over a small universe of titles, icons and            *)
(* descriptions: the lists a source edit can put in place of FeatureList.  *)
FeatureItem ==
  [title : {<<65>>, <<66, 67>>},
   Svg : {"a.svg", "b.svg"},
   description : {Text(<<100>>),
                  Fragment(<<Text(<<101, 32>>), Strong(<<102>>)>>)}]

RECURSIVE ListsUpTo(_)
ListsUpTo(n) ==
  IF n = 0 THEN {<<>>}
  ELSE LET shorter == ListsUpTo(n - 1)
       IN shorter \cup
          {Append(l, e) : l \in {s \in shorter : Len(s) = n - 1},
                          e \in FeatureItem}

FeatureLists == ListsUpTo(MaxLen) \cup {SourceFeatureList}

----------------------------------------------------------------------------
(* clsx: the class names of its truthy arguments, joined. *)
RECURSIVE clsx(_)
clsx(args) ==
  IF args = <<>> THEN <<>>
  ELSE Head(args) \o clsx(Tail(args))

(* The text of a node: what is left of it when its markup is dropped. *)
RECURSIVE TextContent(_), TextContentOf(_)
TextContent(n) ==
  IF n.tag = "#text" THEN n.text
  ELSE IF "children" \in DOMAIN n THEN TextContentOf(n.children)
  ELSE <<>>
TextContentOf(nodes) ==
  IF nodes = <<>> THEN <<>>
  ELSE TextContent(Head(nodes)) \o TextContentOf(Tail(nodes))

(* Variants of Feature: the description placed in the heading and the      *)
(* title in the paragraph; the description rendered as its bare text; the  *)
(* heading after the paragraph; a half-width column.                       *)
FeatureSwapped(props) ==
  [tag |-> "div",
   className |-> clsx(<< <<"col", "col--4">> >>),
   children |-> <<
     [tag |-> "div",
      className |-> <<"text--center">>,
      children |-> <<
        [tag |-> props.Svg,
         className |-> <<"styles.featureSvg">>,
         role |-> "img"] >>],
     [tag |-> "div",
      className |-> <<"text--center", "padding-horiz--md">>,
      children |-> <<
        [tag |-> "Heading", as |-> "h3",
         children |-> <<props.description>>],
        [tag |-> "p", children |-> <<Text(props.title)>>] >>] >>]

FeatureTextOnly(props) ==
  [tag |-> "div",
   className |-> clsx(<< <<"col", "col--4">> >>),
   children |-> <<
     [tag |-> "div",
      className |-> <<"text--center">>,
      children |-> <<
        [tag |-> props.Svg,
         className |-> <<"styles.featureSvg">>,
         role |-> "img"] >>],
     [tag |-> "div",
      className |-> <<"text--center", "padding-horiz--md">>,
      children |-> <<
        [tag |-> "Heading", as |-> "h3",
         children |-> <<Text(props.title)>>],
        [tag |-> "p",
         children |-> <<Text(TextContent(props.description))>>] >>] >>]

FeatureHeadingLast(props) ==
  [tag |-> "div",
   className |-> clsx(<< <<"col", "col--4">> >>),
   children |-> <<
     [tag |-> "div",
      className |-> <<"text--center">>,
      children |-> <<
        [tag |-> props.Svg,
         className |-> <<"styles.featureSvg">>,
         role |-> "img"] >>],
     [tag |-> "div",
      className |-> <<"text--center", "padding-horiz--md">>,
      children |-> <<
        [tag |-> "p", children |-> <<props.description>>],
        [tag |-> "Heading", as |-> "h3",
         children |-> <<Text(props.title)>>] >>] >>]

FeatureHalfWidth(props) ==
  [tag |-> "div",
   className |-> clsx(<< <<"col", "col--6">> >>),
   children |-> <<
     [tag |-> "div",
      className |-> <<"text--center">>,
      children |-> <<
        [tag |-> props.Svg,
         className |-> <<"styles.featureSvg">>,
         role |-> "img"] >>],
     [tag |-> "div",
      className |-> <<"text--center", "padding-horiz--md">>,
      children |-> <<
        [tag |-> "Heading", as |-> "h3",
         children |-> <<Text(props.title)>>],
        [tag |-> "p", children |-> <<props.description>>] >>] >>]

(* function Feature({title, Svg, description}) *)
Feature(props) ==
  [tag |-> "div",
   className |-> clsx(<< <<"col", "col--4">> >>),
   children |-> <<
     [tag |-> "div",
      className |-> <<"text--center">>,
      children |-> <<
        [tag |-> props.Svg,
         className |-> <<"styles.featureSvg">>,
         role |-> "img"] >>],
     [tag |-> "div",
      className |-> <<"text--center", "padding-horiz--md">>,
      children |-> <<
        [tag |-> "Heading", as |-> "h3",
         children |-> <<Text(props.title)>>],
        [tag |-> "p", children |-> <<props.description>>] >>] >>]

(* Variants of the element: keyed by the length of the title; keyed by   *)
(* the index plus the number of renders so far.                            *)
FeatureElementKeyedByTitle(i, props) ==
  [tag |-> "Feature",
   key |-> Len(props.title),
   props |-> [k \in DOMAIN props |-> props[k]]]

FeatureElementKeyedByRender(i, props) ==
  [tag |-> "Feature",
   key |-> i + calls,
   props |-> [k \in DOMAIN props |-> props[k]]]

(* <Feature key={idx} {...props} /> : the spread copies the own fields of  *)
(* the entry into the element's props; the key is not a prop.              *)
FeatureElement(i, props) ==
  [tag |-> "Feature",
   key |-> i,
   props |-> [k \in DOMAIN props |-> props[k]]]

(* The tree HomepageFeatures returns around the children of the row. *)
Section(rowChildren) ==
  [tag |-> "section",
   className |-> <<"styles.features">>,
   children |-> <<
     [tag |-> "div",
      className |-> <<"container">>,
      children |-> <<
        [tag |-> "div",
         className |-> <<"row">>,
         children |-> rowChildren] >>] >>]

RowChildren(tree) == tree.children[1].children[1].children

----------------------------------------------------------------------------
Init ==
  /\ FeatureList \in FeatureLists
  /\ pc = "idle"
  /\ idx = 0
  /\ mapped = <<>>
  /\ visits = [i \in 1..Len(FeatureList) |-> 0]
  /\ section = Null
  /\ dom = Null
  /\ outcome = "none"
  /\ calls = 0
  /\ firstSection = Null
  /\ firstDom = Null

(* The framework calls HomepageFeatures: FeatureList.map starts on a new   *)
(* array at index 0.                                                       *)
Invoke ==
  /\ pc \in {"idle", "done"}
  /\ calls < MaxInvocations
  /\ pc' = "map"
  /\ idx' = 0
  /\ mapped' = <<>>
  /\ visits' = [i \in 1..Len(FeatureList) |-> 0]
  /\ outcome' = "none"
  /\ UNCHANGED <<FeatureList, section, dom, calls, firstSection, firstDom>>

(* Variants of the map step: the entries taken from the end of the list;  *)
(* the entry taken off the list as it is visited; every second entry       *)
(* skipped.                                                                *)
MapStepReversed ==
  /\ pc = "map"
  /\ idx < Len(FeatureList)
  /\ mapped' = Append(mapped,
                  FeatureElement(idx, FeatureList[Len(FeatureList) - idx]))
  /\ visits' = [visits EXCEPT ![Len(FeatureList) - idx] = @ + 1]
  /\ idx' = idx + 1
  /\ UNCHANGED <<FeatureList, pc, section, dom, outcome, calls,
                 firstSection, firstDom>>

MapStepShift ==
  /\ pc = "map"
  /\ FeatureList # <<>>
  /\ mapped' = Append(mapped, FeatureElement(idx, Head(FeatureList)))
  /\ FeatureList' = Tail(FeatureList)
  /\ visits' = Tail(visits)
  /\ idx' = idx + 1
  /\ UNCHANGED <<pc, section, dom, outcome, calls, firstSection, firstDom>>

MapStepSkip ==
  /\ pc = "map"
  /\ idx < Len(FeatureList)
  /\ mapped' = Append(mapped, FeatureElement(idx, FeatureList[idx + 1]))
  /\ visits' = [visits EXCEPT ![idx + 1] = @ + 1]
  /\ idx' = idx + 2
  /\ UNCHANGED <<FeatureList, pc, section, dom, outcome, calls,
                 firstSection, firstDom>>

(* One call of the map callback (props, idx) => <Feature key={idx} ... />  *)
MapStep ==
  /\ pc = "map"
  /\ idx < Len(FeatureList)
  /\ mapped' = Append(mapped, FeatureElement(idx, FeatureList[idx + 1]))
  /\ visits' = [visits EXCEPT ![idx + 1] = @ + 1]
  /\ idx' = idx + 1
  /\ UNCHANGED <<FeatureList, pc, section, dom, outcome, calls,
                 firstSection, firstDom>>

(* Variant of the return: an empty array of cards is an error. *)
ReturnThrowsOnEmpty ==
  /\ pc = "map"
  /\ idx >= Len(FeatureList)
  /\ IF mapped = <<>>
     THEN /\ outcome' = "error"
          /\ UNCHANGED <<section, dom>>
          /\ pc' = "idle"
     ELSE /\ section' = Section(mapped)
          /\ outcome' = "returned"
          /\ dom' = Section(<<>>)
          /\ pc' = "render"
  /\ UNCHANGED <<FeatureList, idx, mapped, visits, calls, firstSection,
                 firstDom>>

(* map is past the last index: HomepageFeatures returns the section, and   *)
(* the framework starts to render it with an empty row.                    *)
Return ==
  /\ pc = "map"
  /\ idx >= Len(FeatureList)
  /\ section' = Section(mapped)
  /\ outcome' = "returned"
  /\ dom' = Section(<<>>)
  /\ pc' = "render"
  /\ UNCHANGED <<FeatureList, idx, mapped, visits, calls, firstSection,
                 firstDom>>

(* The framework renders the next Feature element of the row: it calls     *)
(* Feature with the element's props.                                       *)
RenderFeature ==
  /\ pc = "render"
  /\ Len(RowChildren(dom)) < Len(RowChildren(section))
  /\ LET el == RowChildren(section)[Len(RowChildren(dom)) + 1]
     IN dom' = Section(Append(RowChildren(dom), Feature(el.props)))
  /\ UNCHANGED <<FeatureList, pc, idx, mapped, visits, section, outcome,
                 calls, firstSection, firstDom>>

(* Every element of the row is rendered: the page section is complete. *)
Commit ==
  /\ pc = "render"
  /\ Len(RowChildren(dom)) >= Len(RowChildren(section))
  /\ pc' = "done"
  /\ calls' = calls + 1
  /\ firstSection' = IF calls = 0 THEN section ELSE firstSection
  /\ firstDom' = IF calls = 0 THEN dom ELSE firstDom
  /\ UNCHANGED <<FeatureList, idx, mapped, visits, section, dom, outcome>>

Next == Invoke \/ MapStep \/ Return \/ RenderFeature \/ Commit

Spec == Init /\ [][Next]_vars

(* HomepageFeatures and the render of its result are synchronous: once     *)
(* started, each step that can run does run.                               *)
FairSpec ==
  /\ Spec
  /\ WF_vars(MapStep)
  /\ WF_vars(Return)
  /\ WF_vars(RenderFeature)
  /\ WF_vars(Commit)

----------------------------------------------------------------------------
(* Reading the rendered output *)

Range(f) == {f[i] : i \in DOMAIN f}

(* The cards of the page: the children of the row of the rendered tree. *)
Cards == IF dom = Null THEN <<>> ELSE RowChildren(dom)

(* The Feature elements of the section HomepageFeatures returned. *)
Elements == IF section = Null THEN <<>> ELSE RowChildren(section)

HasClass(n, cls) == "className" \in DOMAIN n /\ cls \in Range(n.className)

(* The content parts of a card in document order: everything that is not   *)
(* a div container.                                                        *)
RECURSIVE ContentParts(_), ContentPartsOf(_)
ContentParts(n) ==
  IF n.tag = "div" THEN ContentPartsOf(n.children) ELSE <<n>>
ContentPartsOf(nodes) ==
  IF nodes = <<>> THEN <<>>
  ELSE ContentParts(Head(nodes)) \o ContentPartsOf(Tail(nodes))

(* The nodes of a tree that carry a class, in document order. *)
RECURSIVE NodesWithClass(_, _), NodesWithClassOf(_, _)
NodesWithClass(n, cls) ==
  (IF HasClass(n, cls) THEN <<n>> ELSE <<>>)
  \o (IF "children" \in DOMAIN n THEN NodesWithClassOf(n.children, cls)
      ELSE <<>>)
NodesWithClassOf(nodes, cls) ==
  IF nodes = <<>> THEN <<>>
  ELSE NodesWithClass(Head(nodes), cls) \o NodesWithClassOf(Tail(nodes), cls)

PartsWithTag(card, tag) ==
  SelectSeq(ContentParts(card), LAMBDA n : n.tag = tag)

(* The card has one heading, and it holds exactly the text t. *)
CarriesTitle(card, t) ==
  LET hs == PartsWithTag(card, "Heading")
  IN Len(hs) = 1 /\ hs[1].children = <<Text(t)>>

(* The card has one paragraph, and it holds exactly the node d. *)
CarriesDescription(card, d) ==
  LET ps == PartsWithTag(card, "p")
  IN Len(ps) = 1 /\ ps[1].children = <<d>>

----------------------------------------------------------------------------
(* C1: the rendered row has one card per entry of the feature list, and    *)
(* the i-th card is the card Feature builds from the i-th entry: while the *)
(* row is being rendered the cards are a prefix of that, and once the      *)
(* render is done there are exactly Len(FeatureList) of them.              *)
C1_OneCardPerEntryInOrder ==
  /\ Len(Cards) <= Len(FeatureList)
  /\ \A i \in 1..Len(Cards) : Cards[i] = Feature(FeatureList[i])
  /\ pc = "done" => Len(Cards) = Len(FeatureList)

C1_Witness ==
  /\ pc = "done"
  /\ Len(FeatureList) = 3
  /\ FeatureList[1] # FeatureList[3]
  /\ Len(Cards) = 3

(* C2: the card at position i carries the title of entry i as the text of  *)
(* its one heading and the description of entry i as the content of its    *)
(* one paragraph; once the render is done every title and every            *)
(* description is carried by as many cards as there are entries that have  *)
(* it (none dropped, none duplicated), and only by cards at the positions  *)
(* of those entries.                                                       *)
C2_TitleAndDescriptionKept ==
  /\ \A i \in 1..Len(Cards) :
       /\ i <= Len(FeatureList)
       /\ CarriesTitle(Cards[i], FeatureList[i].title)
       /\ CarriesDescription(Cards[i], FeatureList[i].description)
  /\ pc = "done" =>
       \A i \in 1..Len(FeatureList) :
         /\ {j \in 1..Len(Cards) :
               CarriesTitle(Cards[j], FeatureList[i].title)}
            = {j \in 1..Len(FeatureList) :
                 FeatureList[j].title = FeatureList[i].title}
         /\ {j \in 1..Len(Cards) :
               CarriesDescription(Cards[j], FeatureList[i].description)}
            = {j \in 1..Len(FeatureList) :
                 FeatureList[j].description = FeatureList[i].description}

C2_Witness ==
  /\ pc = "done"
  /\ Len(FeatureList) = 3
  /\ FeatureList[1].title # FeatureList[2].title
  /\ FeatureList[1].description # FeatureList[2].description
  /\ CarriesTitle(Cards[2], FeatureList[2].title)

(* C3: every completed invocation of HomepageFeatures on the same feature  *)
(* list gives the section and the rendered page of the first one.          *)
C3_SameOutputEveryInvocation ==
  (pc = "done" /\ calls >= 1) =>
     /\ section = firstSection
     /\ dom = firstDom

C3_Witness ==
  /\ pc = "done"
  /\ calls >= 2
  /\ Len(FeatureList) >= 2
  /\ section = firstSection

(* C4: with the feature list of the source, the page shows exactly three   *)
(* cards whose headings are, left to right, the three titles of the        *)
(* source, and the paragraph of each card holds the description of its own *)
(* entry unchanged, its strong element included.                           *)
C4_SourceListScenario ==
  (FeatureList = SourceFeatureList /\ pc = "done") =>
     /\ Len(Cards) = 3
     /\ CarriesTitle(Cards[1],
          <<49892, 51204, 32, 54532, 47212, 54532, 53944, 32, 48516, 49437>>)
     /\ CarriesTitle(Cards[2],
          <<76, 76, 77, 32, 50640, 51060, 51204, 53944, 32, 52572, 51201,
            54868>>)
     /\ CarriesTitle(Cards[3],
          <<48148, 47196, 32, 51201, 50857, 32, 44032, 45733, 54620, 32,
            51064, 49324, 51060, 53944>>)
     /\ CarriesDescription(Cards[1], Description1)
     /\ CarriesDescription(Cards[2], Description2)
     /\ CarriesDescription(Cards[3], Description3)
     /\ \A i \in 1..3 :
          LET d == PartsWithTag(Cards[i], "p")[1].children[1]
          IN /\ d.tag = "Fragment"
             /\ Len(d.children) = 3
             /\ d.children[2].tag = "strong"
             /\ d.children[2] = SourceFeatureList[i].description.children[2]
     /\ PartsWithTag(Cards[1], "p")[1].children[1].children[2].children
          = <<Text(<<49892, 51228, 32, 49436, 48708, 49828>>)>>

C4_Witness ==
  /\ FeatureList = SourceFeatureList
  /\ pc = "done"
  /\ Len(Cards) = 3

(* C5: with an empty feature list HomepageFeatures returns its section     *)
(* without an error outcome, and the section and the page hold zero cards. *)
C5_EmptyListRendersEmptySection ==
  FeatureList = <<>> =>
     /\ outcome # "error"
     /\ pc \in {"render", "done"} =>
          /\ outcome = "returned"
          /\ section # Null
          /\ Elements = <<>>
          /\ Cards = <<>>

C5_Witness ==
  /\ FeatureList = <<>>
  /\ pc = "done"
  /\ outcome = "returned"
  /\ dom = Section(<<>>)

(* C6: no step of the component changes the feature list: its length, its  *)
(* entries and their order stay those of module initialization.            *)
C6_FeatureListUnchanged == [][FeatureList' = FeatureList]_vars

C6_Witness ==
  /\ pc = "done"
  /\ calls = MaxInvocations
  /\ FeatureList = SourceFeatureList

(* C7: an invocation of HomepageFeatures that has started completes; when  *)
(* it has, the map callback has visited every entry exactly once, no entry *)
(* is ever visited twice, and the outcome is 'section returned', never an  *)
(* error.                                                                  *)
C7_SinglePassTerminates ==
  /\ [](\A i \in DOMAIN visits : visits[i] <= 1)
  /\ [](outcome # "error")
  /\ [](pc \in {"render", "done"} =>
          /\ outcome = "returned"
          /\ DOMAIN visits = 1..Len(FeatureList)
          /\ \A i \in 1..Len(FeatureList) : visits[i] = 1)
  /\ (pc = "map") ~> (pc = "done" /\ outcome = "returned")

C7_Witness ==
  /\ pc = "done"
  /\ outcome = "returned"
  /\ Len(FeatureList) = 3
  /\ \A i \in 1..3 : visits[i] = 1

(* C8: every card has exactly three content parts, in this order: the icon *)
(* of its own entry, alone inside a container of class text--center; a     *)
(* heading of level 3; a paragraph.                                        *)
C8_CardShape ==
  \A i \in 1..Len(Cards) :
    LET parts == ContentParts(Cards[i])
    IN /\ Len(parts) = 3
       /\ i <= Len(FeatureList)
       /\ parts[1].tag = FeatureList[i].Svg
       /\ "role" \in DOMAIN parts[1] /\ parts[1].role = "img"
       /\ \E k \in DOMAIN Cards[i].children :
            /\ HasClass(Cards[i].children[k], "text--center")
            /\ Cards[i].children[k].children = <<parts[1]>>
       /\ parts[2].tag = "Heading"
       /\ "as" \in DOMAIN parts[2] /\ parts[2].as = "h3"
       /\ parts[3].tag = "p"

C8_Witness ==
  /\ pc = "done"
  /\ Len(Cards) = 2
  /\ FeatureList[1].Svg # FeatureList[2].Svg
  /\ ContentParts(Cards[2])[1].tag = FeatureList[2].Svg

(* C9: the page has one single row container; the nodes of column class    *)
(* col--4 are exactly the children of that row, in order, and they are the *)
(* cards; with three entries the three cards, four columns wide each, fill *)
(* the twelve columns of one row.                                          *)
C9_OneRowOfThirds ==
  dom # Null =>
     LET rows == NodesWithClass(dom, "row")
     IN /\ Len(rows) = 1
        /\ rows[1].children = Cards
        /\ NodesWithClass(dom, "col--4") = Cards
        /\ NodesWithClass(dom, "col") = Cards
        /\ (pc = "done" /\ Len(FeatureList) = 3) =>
             4 * Cardinality({i \in 1..Len(Cards) :
                                HasClass(Cards[i], "col--4")}) = 12

C9_Witness ==
  /\ pc = "done"
  /\ Len(FeatureList) = 3
  /\ Len(NodesWithClass(dom, "col--4")) = 3

(* C10: the key of the element at position i of the row is i, counted from *)
(* zero, so the keys are pairwise distinct and, once HomepageFeatures has  *)
(* returned, they are the set 0..Len(FeatureList)-1, also when entries of  *)
(* the list are equal.                                                     *)
C10_KeysArePositions ==
  /\ \A i \in 1..Len(mapped) : mapped[i].key = i - 1
  /\ \A i \in 1..Len(Elements) : Elements[i].key = i - 1
  /\ \A i, j \in 1..Len(Elements) :
       i # j => Elements[i].key # Elements[j].key
  /\ pc \in {"render", "done"} =>
       {Elements[i].key : i \in 1..Len(Elements)}
         = {k \in 0..Len(FeatureList) : k < Len(FeatureList)}

C10_Witness ==
  /\ pc = "done"
  /\ Len(FeatureList) = 3
  /\ FeatureList[1] = FeatureList[2]
  /\ FeatureList[2].title = FeatureList[3].title
  /\ Len(Elements) = 3

====
